---- MODULE Spec2Model ----
(***************************************************************************)
(* DataDeduper: the cleaning and deduplication engine of app/deduper.py.   *)
(*                                                                         *)
(* A run is one Deduper object: its constructor creates the job directory, *)
(* reads the uploaded file and cleans it; dedupe() stages the cleaned rows *)
(* in the table public.temp_data, joins them with the main table into the  *)
(* table public.duplicates, in add_to_db mode deletes the matched rows and *)
(* inserts the rest into the main table, truncates temp_data and writes    *)
(* the report.  temp_data and duplicates are tables of the database, the   *)
(* same two for every run; every SQL statement is committed on its own.    *)
(*                                                                         *)
(* Text values are sequences of one-character strings, so that the         *)
(* cleaning rules can be computed character by character.                  *)
(***************************************************************************)
EXTENDS Integers, Sequences, FiniteSets, TLC

(***************************************************************************)
(* Characters and the character classes of the regular expressions.        *)
(***************************************************************************)
Digits == {"0", "1", "2", "3", "4", "5", "6", "7", "8", "9"}

Letters == {"A", "E", "J", "a", "c", "d", "e", "l", "m", "o"}

\* \w of Python's re on str: letters, digits and the underscore
WordChars == Letters \cup Digits \cup {"_"}

\* \s of Python's re
SpaceChars == {" "}

(***************************************************************************)
(* Helpers on sequences.                                                   *)
(***************************************************************************)
RECURSIVE Filter(_, _)
\* the characters of v that are in keep, in order (str.replace of a class by '')
Filter(v, keep) ==
    IF v = <<>> THEN <<>>
    ELSE IF Head(v) \in keep THEN <<Head(v)>> \o Filter(Tail(v), keep)
         ELSE Filter(Tail(v), keep)

AllIn(v, cls) == \A i \in 1..Len(v) : v[i] \in cls

\* the test of the last characters instead of the first
EndsWith(v, p) == Len(v) >= Len(p) /\ SubSeq(v, Len(v) - Len(p) + 1, Len(v)) = p

StartsWith(v, p) == Len(v) >= Len(p) /\ SubSeq(v, 1, Len(p)) = p

Range(s) == {s[i] : i \in 1..Len(s)}

(***************************************************************************)
(* The schema: column_specs of app/data_structure.py, in its order.        *)
(***************************************************************************)
ColumnOrder ==
    <<"id", "title", "first_name", "last_name", "phone", "email", "address",
      "city", "postcode", "dob", "supplier_name", "bsc", "delivery">>

\* the characters of the string " .'\-/\\\\" as members of a character class
AddressSpecialChars == {" ", ".", "'", "-", "/", "\\"}

column_specs ==
    [id |-> [label |-> "ID", required |-> FALSE, primary_key |-> TRUE,
             target |-> FALSE, cleaning_rules |-> <<>>],
     title |-> [label |-> "Title", required |-> FALSE, primary_key |-> FALSE,
                target |-> FALSE,
                cleaning_rules |-> [remove_zeros |-> TRUE,
                                    remove_special_chars |-> TRUE]],
     first_name |-> [label |-> "First Name", required |-> FALSE,
                     primary_key |-> FALSE, target |-> FALSE,
                     cleaning_rules |-> [valid_first_name |-> TRUE]],
     last_name |-> [label |-> "Last Name", required |-> FALSE,
                    primary_key |-> FALSE, target |-> FALSE,
                    cleaning_rules |-> [valid_last_name |-> TRUE]],
     phone |-> [label |-> "Phone", required |-> TRUE, primary_key |-> FALSE,
                target |-> TRUE,
                cleaning_rules |-> [exact_length |-> 10,
                                    starts_with |-> <<"7">>]],
     email |-> [label |-> "Email", required |-> FALSE, primary_key |-> FALSE,
                target |-> FALSE,
                cleaning_rules |-> [valid_email |-> TRUE]],
     address |-> [label |-> "Address", required |-> FALSE,
                  primary_key |-> FALSE, target |-> FALSE,
                  cleaning_rules |->
                      [allowed_special_chars |-> AddressSpecialChars]],
     city |-> [label |-> "City", required |-> FALSE, primary_key |-> FALSE,
               target |-> FALSE,
               cleaning_rules |->
                   [allowed_special_chars |-> AddressSpecialChars]],
     postcode |-> [label |-> "Postcode", required |-> FALSE,
                   primary_key |-> FALSE, target |-> FALSE,
                   cleaning_rules |-> [max_length |-> 8, min_length |-> 5,
                                       alphanumeric_only |-> TRUE,
                                       remove_spaces |-> TRUE]],
     dob |-> [label |-> "DOB", required |-> FALSE, primary_key |-> FALSE,
              target |-> FALSE, cleaning_rules |-> [valid_dob |-> TRUE]],
     supplier_name |-> [label |-> "Supplier", required |-> TRUE,
                        primary_key |-> FALSE, target |-> FALSE,
                        cleaning_rules |-> [min_length |-> 1,
                                            alphanumeric_only |-> TRUE]],
     bsc |-> [label |-> "BSC", required |-> FALSE, primary_key |-> FALSE,
              target |-> FALSE, cleaning_rules |-> [max_length |-> 8]],
     delivery |-> [label |-> "Delivery", required |-> FALSE,
                   primary_key |-> FALSE, target |-> FALSE,
                   cleaning_rules |-> <<>>]]

(***************************************************************************)
(* Deduper.__init__, lines 114-127: the lists derived from the schema.     *)
(***************************************************************************)
LabelOf(c) == column_specs[c].label

required_columns ==
    SelectSeq(ColumnOrder,
              LAMBDA c : ~column_specs[c].primary_key /\ column_specs[c].required)

optional_columns ==
    SelectSeq(ColumnOrder,
              LAMBDA c : ~column_specs[c].primary_key /\ ~column_specs[c].required)

required_labels == [i \in 1..Len(required_columns) |-> LabelOf(required_columns[i])]

optional_labels == [i \in 1..Len(optional_columns) |-> LabelOf(optional_columns[i])]

target_column == CHOOSE c \in Range(ColumnOrder) : column_specs[c].target

target_label == LabelOf(target_column)

\* __get_columns and __get_labels: optional first, then required
get_columns == optional_columns \o required_columns

get_labels == optional_labels \o required_labels

(***************************************************************************)
(* The cleaning rules of Deduper.__clean_data_v2, lines 189-241.           *)
(***************************************************************************)
\* 'name' in rules
HasRule(rules, name) == name \in DOMAIN rules

\* rules.get(name)
RuleSet(rules, name) == name \in DOMAIN rules /\ rules[name] = TRUE

\* column_data.str.match(r"^[\w\-\.]+@([\w\-]+\.)+[\w\-]{2,4}$")
MatchesEmail(v) ==
    \E at \in 1..Len(v) :
        /\ v[at] = "@"
        /\ at > 1
        /\ AllIn(SubSeq(v, 1, at - 1), WordChars \cup {"-", "."})
        /\ LET d == SubSeq(v, at + 1, Len(v))
           IN  \E dot \in 1..Len(d) :
                   /\ d[dot] = "."
                   /\ Len(d) - dot \in 2..4
                   /\ AllIn(SubSeq(d, dot + 1, Len(d)), WordChars \cup {"-"})
                   /\ AllIn(SubSeq(d, 1, dot), WordChars \cup {"-", "."})
                   /\ d[1] # "."
                   /\ \A i \in 1..(dot - 1) : ~(d[i] = "." /\ d[i + 1] = ".")

\* the length test of line 215: | binds tighter than >=, so the value compared
\* with the length is (3 | isin(...)), which pandas turns into the boolean
\* True for every row; the test is len >= True
FirstNameLengthOk(v) == Len(v) >= 1

\* lines 215-216
IsValidFirstName(v) ==
    FirstNameLengthOk(v) /\ Len(v) >= 1 /\ AllIn(v, Letters \cup {" ", "-"})

\* line 223
IsValidLastName(v) == Len(v) >= 1 /\ AllIn(v, Letters \cup {" ", "-", "'"})

DigitValue(c) ==
    CASE c = "0" -> 0 [] c = "1" -> 1 [] c = "2" -> 2 [] c = "3" -> 3
      [] c = "4" -> 4 [] c = "5" -> 5 [] c = "6" -> 6 [] c = "7" -> 7
      [] c = "8" -> 8 [] c = "9" -> 9

TwoDigits(v, i) == 10 * DigitValue(v[i]) + DigitValue(v[i + 1])

\* the null marker r"\N" written for a value that is no date
NullMarker == <<"\\", "N">>

NaT == <<"NaT">>

\* pd.to_datetime(...).dt.strftime('%Y-%m-%d') on the two layouts the model
\* feeds it: YYYY-MM-DD and MM/DD/YYYY with a day that every month has;
\* every other text is no date (NaT)
ToDatetime(v) ==
    IF /\ Len(v) = 10
       /\ v[5] = "-" /\ v[8] = "-"
       /\ AllIn(SubSeq(v, 1, 4) \o SubSeq(v, 6, 7) \o SubSeq(v, 9, 10), Digits)
       /\ TwoDigits(v, 6) \in 1..12 /\ TwoDigits(v, 9) \in 1..28
       /\ SubSeq(v, 1, 4) # <<"0", "0", "0", "0">>
    THEN v
    ELSE IF /\ Len(v) = 10
            /\ v[3] = "/" /\ v[6] = "/"
            /\ AllIn(SubSeq(v, 1, 2) \o SubSeq(v, 4, 5) \o SubSeq(v, 7, 10), Digits)
            /\ TwoDigits(v, 1) \in 1..12 /\ TwoDigits(v, 4) \in 1..28
            /\ SubSeq(v, 7, 10) # <<"0", "0", "0", "0">>
         THEN SubSeq(v, 7, 10) \o <<"-">> \o SubSeq(v, 1, 2) \o <<"-">> \o SubSeq(v, 4, 5)
         ELSE NaT

\* the chain with the three length rules ahead of the rules that strip
\* characters
ApplyRulesLengthFirst(rules, raw) ==
    LET v1 == IF HasRule(rules, "exact_length") /\ Len(raw) # rules["exact_length"]
              THEN <<>> ELSE raw
        v2 == IF HasRule(rules, "min_length") /\ ~(Len(v1) >= rules["min_length"])
              THEN <<>> ELSE v1
        v3 == IF HasRule(rules, "max_length") /\ ~(Len(v2) <= rules["max_length"])
              THEN <<>> ELSE v2
        v4 == IF RuleSet(rules, "remove_zeros")
              THEN Filter(v3, Range(v3) \ {"0"}) ELSE v3
        v5 == IF RuleSet(rules, "remove_spaces")
              THEN Filter(v4, Range(v4) \ {" "}) ELSE v4
        v6 == IF HasRule(rules, "allowed_special_chars")
              THEN Filter(v5, rules["allowed_special_chars"] \cup WordChars)
              ELSE v5
        v7 == IF RuleSet(rules, "remove_special_chars")
              THEN Filter(v6, WordChars \cup SpaceChars) ELSE v6
        v8 == IF RuleSet(rules, "alphanumeric_only")
              THEN Filter(v7, WordChars) ELSE v7
        v9 == IF RuleSet(rules, "valid_email") /\ ~MatchesEmail(v8)
              THEN <<>> ELSE v8
        v10 == IF RuleSet(rules, "valid_first_name") /\ ~IsValidFirstName(v9)
               THEN <<>> ELSE v9
        v11 == IF RuleSet(rules, "valid_last_name") /\ ~IsValidLastName(v10)
               THEN <<>> ELSE v10
        v12 == IF RuleSet(rules, "valid_dob")
               THEN (IF ToDatetime(v11) # NaT /\ v11 # <<>>
                     THEN ToDatetime(v11) ELSE NullMarker)
               ELSE v11
        v13 == IF HasRule(rules, "starts_with") /\ ~StartsWith(v12, rules["starts_with"])
               THEN <<>> ELSE v12
    IN  v13

\* the chain of rules, in the order of the if statements of lines 189-241
ApplyRules(rules, raw) ==
    LET v1 == IF RuleSet(rules, "remove_zeros")
              THEN Filter(raw, Range(raw) \ {"0"}) ELSE raw
        v2 == IF RuleSet(rules, "remove_spaces")
              THEN Filter(v1, Range(v1) \ {" "}) ELSE v1
        v3 == IF HasRule(rules, "allowed_special_chars")
              THEN Filter(v2, rules["allowed_special_chars"] \cup WordChars)
              ELSE v2
        v4 == IF RuleSet(rules, "remove_special_chars")
              THEN Filter(v3, WordChars \cup SpaceChars) ELSE v3
        v5 == IF RuleSet(rules, "alphanumeric_only")
              THEN Filter(v4, WordChars) ELSE v4
        v6 == IF RuleSet(rules, "valid_email") /\ ~MatchesEmail(v5)
              THEN <<>> ELSE v5
        v7 == IF RuleSet(rules, "valid_first_name") /\ ~IsValidFirstName(v6)
              THEN <<>> ELSE v6
        v8 == IF RuleSet(rules, "valid_last_name") /\ ~IsValidLastName(v7)
              THEN <<>> ELSE v7
        v9 == IF RuleSet(rules, "valid_dob")
              THEN (IF ToDatetime(v8) # NaT /\ v8 # <<>>
                    THEN ToDatetime(v8) ELSE NullMarker)
              ELSE v8
        v10 == IF HasRule(rules, "exact_length") /\ Len(v9) # rules["exact_length"]
               THEN <<>> ELSE v9
        v11 == IF HasRule(rules, "min_length") /\ ~(Len(v10) >= rules["min_length"])
               THEN <<>> ELSE v10
        v12 == IF HasRule(rules, "max_length") /\ ~(Len(v11) <= rules["max_length"])
               THEN <<>> ELSE v11
        v13 == IF HasRule(rules, "starts_with") /\ ~StartsWith(v12, rules["starts_with"])
               THEN <<>> ELSE v12
    IN  v13

\* the names of the rules in the order of the if statements of lines 189-241
RuleOrder ==
    <<"remove_zeros", "remove_spaces", "allowed_special_chars",
      "remove_special_chars", "alphanumeric_only", "valid_email",
      "valid_first_name", "valid_last_name", "valid_dob", "exact_length",
      "min_length", "max_length", "starts_with">>

\* the names of the rules of each column in the order in which the dict
\* cleaning_rules of app/data_structure.py lists them
declared_rules ==
    [id |-> <<>>,
     title |-> <<"remove_zeros", "remove_special_chars">>,
     first_name |-> <<"valid_first_name">>,
     last_name |-> <<"valid_last_name">>,
     phone |-> <<"exact_length", "starts_with">>,
     email |-> <<"valid_email">>,
     address |-> <<"allowed_special_chars">>,
     city |-> <<"allowed_special_chars">>,
     postcode |-> <<"max_length", "min_length", "alphanumeric_only", "remove_spaces">>,
     dob |-> <<"valid_dob">>,
     supplier_name |-> <<"min_length", "alphanumeric_only">>,
     bsc |-> <<"max_length">>,
     delivery |-> <<>>]

\* the names on the list of line 215
ShortNameAllowList == {<<"J", "o">>, <<"E", "d">>}

(***************************************************************************)
(* Deduper.__read_data_file and Deduper.__clean_data_v2 on a whole file.   *)
(* A file is a header (a set of labels) and rows (label -> text).          *)
(***************************************************************************)
\* pd.read_csv(...).dropna(how='all'): an empty cell is NaN
ReadDataFile(file) ==
    SelectSeq(file.rows, LAMBDA row : \E l \in file.header : row[l] # <<>>)

ColumnsIn(header) == {c \in Range(ColumnOrder) : LabelOf(c) \in header}

\* lines 177-244: every column of the schema whose label the file has
CleanRow(header, row) ==
    [l \in header |->
        IF \E c \in Range(ColumnOrder) : LabelOf(c) = l
        THEN LET c == CHOOSE c \in Range(ColumnOrder) : LabelOf(c) = l
             IN  ApplyRules(column_specs[c].cleaning_rules, row[l])
        ELSE row[l]]

\* the mark taken from the target column alone
MarkedForDeletionTargetOnly(header, cleaned) ==
    target_label \in header /\ cleaned[target_label] = <<>>

\* the mark taken from every column of the file, required or not
MarkedForDeletionAnyColumn(header, cleaned) ==
    \E c \in ColumnsIn(header) : cleaned[LabelOf(c)] = <<>>

\* lines 247-248: the _delete mark of a cleaned row
MarkedForDeletion(header, cleaned) ==
    \E c \in ColumnsIn(header) :
        column_specs[c].required /\ cleaned[LabelOf(c)] = <<>>

\* the deletion that also drops a row equal to an earlier cleaned row
CleanDataKeepFirst(header, rows) ==
    LET cleaned == [i \in 1..Len(rows) |-> CleanRow(header, rows[i])]
        idx == SelectSeq([i \in 1..Len(rows) |-> i],
                         LAMBDA i : /\ ~MarkedForDeletion(header, cleaned[i])
                                    /\ ~\E j \in 1..(i - 1) : cleaned[j] = cleaned[i])
    IN  [k \in 1..Len(idx) |-> cleaned[idx[k]]]

\* lines 251-252
CleanData(header, rows) ==
    SelectSeq([i \in 1..Len(rows) |-> CleanRow(header, rows[i])],
              LAMBDA cleaned : ~MarkedForDeletion(header, cleaned))

\* line 253: invalid_first_names / total_rows raises ZeroDivisionError when
\* both are Python ints; invalid_first_names is a numpy integer (and the
\* quotient nan) as soon as one column with valid_first_name was processed
ThresholdRaises(header, total) ==
    /\ total = 0
    /\ ~\E c \in ColumnsIn(header) :
            RuleSet(column_specs[c].cleaning_rules, "valid_first_name")

(***************************************************************************)
(* Preparing and staging: lines 271-285, 317-323 and 339-350.              *)
(***************************************************************************)
\* the check that lets every header pass
MissingRequiredNever(header) == FALSE

\* line 274: the labels that follow "Required columns missing: "
MissingRequiredMessage(header) == required_labels

\* __check_required_columns
MissingRequired(header) == ~(Range(required_labels) \subseteq header)

\* __check_optional_columns and __remove_extra_columns
WithOptionalColumns(header, row) ==
    [l \in (header \cup Range(optional_labels)) \cap Range(get_labels) |->
        IF l \in header THEN row[l] ELSE <<>>]

\* drop_duplicates with keep='last'
DropDuplicatesKeepLast(rows, seen) ==
    LET idx == SelectSeq([i \in 1..Len(rows) |-> i],
                         LAMBDA i : ~\E j \in (i + 1)..Len(rows) :
                                        rows[j][target_label] = rows[i][target_label])
    IN  [k \in 1..Len(idx) |-> rows[idx[k]]]

RECURSIVE DropDuplicates(_, _)
\* drop_duplicates(subset=target_label, keep='first')
DropDuplicates(rows, seen) ==
    IF rows = <<>> THEN <<>>
    ELSE IF Head(rows)[target_label] \in seen
         THEN DropDuplicates(Tail(rows), seen)
         ELSE <<Head(rows)>> \o
              DropDuplicates(Tail(rows), seen \cup {Head(rows)[target_label]})

\* __prepare_data
PrepareData(header, rows, add_to_db) ==
    LET all == [i \in 1..Len(rows) |-> WithOptionalColumns(header, rows[i])]
    IN  IF add_to_db
        THEN DropDuplicates(all, {})
        ELSE [i \in 1..Len(all) |-> [l \in {target_label} |-> all[i][l]]]

\* the SQL NULL
DbNull == <<"NULL">>

RECURSIVE StripLeadingZeros(_)
StripLeadingZeros(v) ==
    IF Len(v) > 1 /\ Head(v) = "0" THEN StripLeadingZeros(Tail(v)) ELSE v

\* a text that COPY accepts for the bigint column phone
IsBigint(v) == Len(v) >= 1 /\ AllIn(v, Digits)

\* COPY ... FROM of one field: \N is the NULL, a bigint is stored as a number
CopyFromField(c, v) ==
    IF v = NullMarker THEN DbNull
    ELSE IF c = target_column THEN StripLeadingZeros(v) ELSE v

\* the row of temp_data that copy_from makes of a prepared row: the columns
\* that are not copied are NULL
TempRow(prepared) ==
    [c \in Range(get_columns) |->
        IF LabelOf(c) \in DOMAIN prepared
        THEN CopyFromField(c, prepared[LabelOf(c)])
        ELSE DbNull]

\* copy_from raises when a field of the phone column is no number
CopyFromRaises(prepared) ==
    \E i \in 1..Len(prepared) :
        /\ prepared[i][target_label] # NullMarker
        /\ ~IsBigint(prepared[i][target_label])

(***************************************************************************)
(* The SQL statements of lines 352-375 on tables held as sequences of      *)
(* rows.  A staged row is [data, by]: by names the run whose copy_from     *)
(* wrote it; no statement looks at it.                                     *)
(***************************************************************************)
\* a table that may not exist: select ... into creates it, drop table removes it
NoTable == [exists |-> FALSE, rows |-> <<>>]

Table(rows) == [exists |-> TRUE, rows |-> rows]

\* the comparison temp_data.phone = main.phone of the join: NULL equals nothing
SqlEq(a, b) == a # DbNull /\ b # DbNull /\ a = b

RECURSIVE Flatten(_)
Flatten(ss) == IF ss = <<>> THEN <<>> ELSE Head(ss) \o Flatten(Tail(ss))

\* the join on every required column instead of the target column
JoinRowsOnRequired(temp, main) ==
    Flatten([i \in 1..Len(temp) |->
        LET hits == SelectSeq(main,
                       LAMBDA m : \A c \in Range(required_columns) :
                                      SqlEq(temp[i].data[c], m[c]))
        IN  [j \in 1..Len(hits) |->
                [c \in Range(required_columns) |-> temp[i].data[c]]]])

\* select <required columns of temp_data> ... from temp_data inner join main
JoinRows(temp, main) ==
    Flatten([i \in 1..Len(temp) |->
        LET hits == SelectSeq(main,
                       LAMBDA m : SqlEq(temp[i].data[target_column], m[target_column]))
        IN  [j \in 1..Len(hits) |->
                [c \in Range(required_columns) |-> temp[i].data[c]]]])

\* select phone from duplicates
DuplicateKeys(dups) == {dups[i][target_column] : i \in 1..Len(dups)}

\* delete from temp_data where phone in (select phone from duplicates)
DeleteMatched(temp, dups) ==
    SelectSeq(temp,
              LAMBDA t : ~\E k \in DuplicateKeys(dups) : SqlEq(t.data[target_column], k))

\* the main table declares phone and supplier_name nullable=False
NotNullColumns == {"phone", "supplier_name"}

InsertRaises(temp) ==
    \E i \in 1..Len(temp) : \E c \in NotNullColumns : temp[i].data[c] = DbNull

\* select get_columns from temp_data
SelectColumns(temp) == [i \in 1..Len(temp) |-> temp[i].data]

\* str(row[0]) for the rows of duplicates, line 383
FetchedKeys(dups) == DuplicateKeys(dups) \ {DbNull}

(***************************************************************************)
(* The classification and the summary, lines 384-397.                      *)
(***************************************************************************)
Key(row) == row[target_label]

\* duplicated(keep='first'): only the occurrences after the first
OccursEarlier(rows, i) ==
    \E j \in 1..(i - 1) : Key(rows[j]) = Key(rows[i])

\* dataframe.duplicated(subset=target_label, keep=False)
OccursMoreThanOnce(rows, i) ==
    \E j \in 1..Len(rows) : j # i /\ Key(rows[j]) = Key(rows[i])

\* lines 384-387
Classify(rows, data) ==
    [i \in 1..Len(rows) |->
        LET r0 == IF OccursMoreThanOnce(rows, i) THEN 2 ELSE 0
            r1 == IF Key(rows[i]) \in data /\ r0 = 0 THEN 1 ELSE r0
            r2 == IF Key(rows[i]) \in data /\ r1 = 2 THEN 3 ELSE r1
        IN  CASE r2 = 0 -> "Unique" [] r2 = 1 -> "Duplicate"
              [] r2 = 2 -> "In-file" [] r2 = 3 -> "In-file & DB"]

Classes == {"Unique", "Duplicate", "In-file", "In-file & DB"}

CountOf(results, cls) == Cardinality({i \in 1..Len(results) : results[i] = cls})

\* the count with keep=False: every record of a repeated key
ExtraCountKeepFalse(rows, results, cls) ==
    Cardinality({i \in 1..Len(rows) :
        /\ results[i] = cls
        /\ \E j \in 1..Len(rows) :
              j # i /\ results[j] = cls /\ Key(rows[j]) = Key(rows[i])})

\* dataframe[Result == cls].duplicated(subset=target_label, keep='first').sum()
ExtraCount(rows, results, cls) ==
    Cardinality({i \in 1..Len(rows) :
        /\ results[i] = cls
        /\ \E j \in 1..(i - 1) : results[j] = cls /\ Key(rows[j]) = Key(rows[i])})

\* the summary with the row count of the file as the classified total
SummaryOfInputRows(rows, results, total_rows) ==
    [returned |-> TRUE,
     indicator_counts |->
        [cls \in {results[i] : i \in 1..Len(results)} |-> CountOf(results, cls)],
     total_classified |-> total_rows,
     unique_infile_count |-> ExtraCount(rows, results, "In-file"),
     unique_infile_db_count |-> ExtraCount(rows, results, "In-file & DB"),
     total_input_rows |-> total_rows]

\* the summary with the row count of the cleaned batch as the input total
SummaryOfCleanedRows(rows, results, total_rows) ==
    [returned |-> TRUE,
     indicator_counts |->
        [cls \in {results[i] : i \in 1..Len(results)} |-> CountOf(results, cls)],
     total_classified |-> Len(rows),
     unique_infile_count |-> ExtraCount(rows, results, "In-file"),
     unique_infile_db_count |-> ExtraCount(rows, results, "In-file & DB"),
     total_input_rows |-> Len(rows)]

\* the list that __generate_report returns (percentages left out)
Summary(rows, results, total_rows) ==
    [returned |-> TRUE,
     indicator_counts |->
        [cls \in {results[i] : i \in 1..Len(results)} |-> CountOf(results, cls)],
     total_classified |-> Len(rows),
     unique_infile_count |-> ExtraCount(rows, results, "In-file"),
     unique_infile_db_count |-> ExtraCount(rows, results, "In-file & DB"),
     total_input_rows |-> total_rows]

(***************************************************************************)
(* Inputs: the uploaded files and the contents of the main table.          *)
(***************************************************************************)
MaxRows == 2

Runs == {"job1", "job2"}

Phone1 == <<"7", "0", "0", "0", "0", "0", "0", "0", "0", "1">>

Phone3 == <<"7", "0", "0", "0", "0", "0", "0", "0", "0", "3">>

\* nine characters: the exact_length rule empties it
PhoneShort == <<"7", "0", "0", "0", "0", "0", "0", "0", "2">>

\* ten characters and a leading 7, but no number
PhoneAlpha == <<"7", "a", "0", "0", "0", "0", "0", "0", "0", "1">>

Acme == <<"A", "c", "m", "e">>

SampleRow(phone, name) ==
    [l \in {"Phone", "Supplier", "First Name"} |->
        CASE l = "Phone" -> phone [] l = "Supplier" -> Acme [] l = "First Name" -> name]

SampleRows == {SampleRow(Phone1, <<"J", "o">>), SampleRow(Phone3, <<"A", "l">>)}

FullHeader == {"Phone", "Supplier", "First Name"}

ShortHeaders == {{"Phone", "Supplier"}, {"Phone", "First Name"}}

Restrict(row, header) == [l \in header |-> row[l]]

SeqsUpTo(S, n) == UNION {[1..k -> S] : k \in 0..n}

\* the four rows of the example of the specification: the third has a short phone
ExampleRows ==
    <<SampleRow(Phone1, <<"J", "o">>), SampleRow(Phone1, <<"J", "o">>),
      SampleRow(PhoneShort, <<"E", "d">>), SampleRow(Phone3, <<"A", "l">>)>>

\* files with every column: up to MaxRows of the sample rows, the example, a
\* file whose only row has a short phone and one whose only row has a phone
\* that is no number; a file that lacks a column holds no row or one
InputFiles ==
    {[header |-> FullHeader, rows |-> rows] : rows \in SeqsUpTo(SampleRows, MaxRows)}
    \cup
    {[header |-> FullHeader, rows |-> rows] :
        rows \in {ExampleRows, <<SampleRow(PhoneShort, <<"E", "d">>)>>,
                  <<SampleRow(PhoneAlpha, <<"J", "o">>)>>}}
    \cup
    UNION {{[header |-> h, rows |-> <<>>],
            [header |-> h,
             rows |-> <<Restrict(SampleRow(Phone1, <<"J", "o">>), h)>>]} :
           h \in ShortHeaders}

\* a row of the main table with the given phone
StoredRow(phone) ==
    [c \in Range(get_columns) |->
        CASE c = "phone" -> phone [] c = "supplier_name" -> Acme [] OTHER -> <<>>]

InitialStores == {<<>>, <<StoredRow(Phone1)>>}

(***************************************************************************)
(* The state.                                                              *)
(***************************************************************************)
VARIABLES
    store,          \* the main table public.<table_name>
    temp_data,      \* the table public.temp_data
    duplicates,     \* the table public.duplicates, or NoTable
    pc,             \* where each run is
    error,          \* the exception a failed run raised
    error_labels,   \* the column labels that the exception's message names
    file,           \* data_file_path: the file each run was given
    add_to_db,      \* the mode of each run
    dataframe,      \* self.dataframe: the cleaned rows
    total_rows,     \* self.total_rows
    data,           \* the keys read from duplicates in __generate_report
    report,         \* report.csv: the Result column
    result_csv,     \* result.csv, or NoFile
    summary,        \* what dedupe returns
    store_at_start, \* history: the main table when the run was constructed
    store_at_join,  \* history: the main table when the run's join ran
    appended,       \* history: the rows the run's insert added to the main table
    reset_done,     \* history: the run executed its truncate
    failed_at       \* history: where the run was when it failed

dbVars == <<store, temp_data, duplicates>>

runVars == <<pc, error, error_labels, file, add_to_db, dataframe, total_rows, data, report,
             result_csv, summary>>

historyVars == <<store_at_start, store_at_join, appended, reset_done, failed_at>>

vars == <<dbVars, runVars, historyVars>>

\* a file of the job directory that may not have been written
NoFile == [written |-> FALSE, rows |-> <<>>]

FileOf(rows) == [written |-> TRUE, rows |-> rows]

NoSummary ==
    [returned |-> FALSE, indicator_counts |-> <<>>, total_classified |-> 0,
     unique_infile_count |-> 0, unique_infile_db_count |-> 0,
     total_input_rows |-> 0]

None == "None"

InitWith(stores, files, modes) ==
    /\ store \in stores
    /\ temp_data = <<>>
    /\ duplicates = NoTable
    /\ pc = [r \in Runs |-> "Created"]
    /\ error = [r \in Runs |-> None]
    /\ error_labels = [r \in Runs |-> <<>>]
    /\ file \in files
    /\ add_to_db \in modes
    /\ dataframe = [r \in Runs |-> <<>>]
    /\ total_rows = [r \in Runs |-> 0]
    /\ data = [r \in Runs |-> {}]
    /\ report = [r \in Runs |-> NoFile]
    /\ result_csv = [r \in Runs |-> NoFile]
    /\ summary = [r \in Runs |-> NoSummary]
    /\ store_at_start = [r \in Runs |-> <<>>]
    /\ store_at_join = [r \in Runs |-> <<>>]
    /\ appended = [r \in Runs |-> <<>>]
    /\ reset_done = [r \in Runs |-> FALSE]
    /\ failed_at = [r \in Runs |-> None]

\* the database before the first job: temp_data empty, no table duplicates
Init == InitWith(InitialStores, [Runs -> InputFiles], [Runs -> BOOLEAN])

\* an exception leaves the run: nothing in dedupe catches it
Raise(r, kind) ==
    /\ pc' = [pc EXCEPT ![r] = "Failed"]
    /\ error' = [error EXCEPT ![r] = kind]
    /\ error_labels' =
          [error_labels EXCEPT ![r] =
              IF kind = "MissingRequiredColumns"
              THEN MissingRequiredMessage(file[r].header) ELSE <<>>]
    /\ failed_at' = [failed_at EXCEPT ![r] = pc[r]]

Goto(r, next) ==
    /\ pc' = [pc EXCEPT ![r] = next]
    /\ UNCHANGED <<error, error_labels, failed_at>>

(***************************************************************************)
(* Deduper.__init__, lines 130-134: job directory, read, clean.            *)
(***************************************************************************)
Construct(r) ==
    /\ pc[r] = "Created"
    /\ store_at_start' = [store_at_start EXCEPT ![r] = store]
    /\ \E outcome \in {"ok", "mkdir fails", "read fails"} :
        LET rows == ReadDataFile(file[r])
            header == file[r].header
        IN  \/ /\ outcome = "mkdir fails"
               /\ Raise(r, "ErrorCreatingJobDir")
               /\ UNCHANGED <<dataframe, total_rows>>
            \/ /\ outcome = "read fails"
               /\ Raise(r, "ErrorReadingDataFile")
               /\ UNCHANGED <<dataframe, total_rows>>
            \/ /\ outcome = "ok"
               /\ dataframe' = [dataframe EXCEPT ![r] = CleanData(header, rows)]
               /\ total_rows' = [total_rows EXCEPT ![r] = Len(rows)]
               /\ IF ThresholdRaises(header, Len(rows))
                  THEN Raise(r, "ZeroDivisionError")
                  ELSE Goto(r, "Cleaned")
    /\ UNCHANGED <<dbVars, file, add_to_db, data, report, result_csv, summary,
                   store_at_join, appended, reset_done>>

(***************************************************************************)
(* Deduper.dedupe, lines 137-143: the checks, __prepare_data and           *)
(* __insert_temp_data, whose copy_from is committed at line 349.           *)
(***************************************************************************)
Stage(r) ==
    /\ pc[r] = "Cleaned"
    /\ LET header == file[r].header
           prepared == PrepareData(header, dataframe[r], add_to_db[r])
       IN  IF MissingRequired(header)
           THEN Raise(r, "MissingRequiredColumns") /\ UNCHANGED temp_data
           ELSE IF CopyFromRaises(prepared)
           THEN Raise(r, "DataError") /\ UNCHANGED temp_data
           ELSE /\ temp_data' = temp_data \o
                       [i \in 1..Len(prepared) |->
                           [data |-> TempRow(prepared[i]), by |-> r]]
                /\ Goto(r, "Staged")
    /\ UNCHANGED <<store, duplicates, file, add_to_db, dataframe, total_rows,
                   data, report, result_csv, summary, store_at_start,
                   store_at_join, appended, reset_done>>

\* the join called ahead of __insert_temp_data as well
JoinTablesUnstaged(r) ==
    /\ pc[r] \in {"Cleaned", "Staged"}
    /\ IF duplicates.exists
       THEN Raise(r, "DuplicateTable") /\ UNCHANGED <<duplicates, store_at_join>>
       ELSE /\ duplicates' = Table(JoinRows(temp_data, store))
            /\ store_at_join' = [store_at_join EXCEPT ![r] = store]
            /\ Goto(r, "Matched")
    /\ UNCHANGED <<store, temp_data, file, add_to_db, dataframe, total_rows,
                   data, report, result_csv, summary, store_at_start,
                   appended, reset_done>>

\* __join_tables, lines 352-358: select ... into duplicates
JoinTables(r) ==
    /\ pc[r] = "Staged"
    /\ IF duplicates.exists
       THEN Raise(r, "DuplicateTable") /\ UNCHANGED <<duplicates, store_at_join>>
       ELSE /\ duplicates' = Table(JoinRows(temp_data, store))
            /\ store_at_join' = [store_at_join EXCEPT ![r] = store]
            /\ Goto(r, "Matched")
    /\ UNCHANGED <<store, temp_data, file, add_to_db, dataframe, total_rows,
                   data, report, result_csv, summary, store_at_start,
                   appended, reset_done>>

\* the branch taken in both modes
CommitPathAlways(r) == TRUE

\* line 147: if self.add_to_db
CommitPath(r) == add_to_db[r]

\* __remove_duplicates_from_temp_table, lines 360-362, under line 147
RemoveDuplicatesFromTempTable(r) ==
    /\ pc[r] = "Matched"
    /\ CommitPath(r)
    /\ IF ~duplicates.exists
       THEN Raise(r, "UndefinedTable") /\ UNCHANGED temp_data
       ELSE /\ temp_data' = DeleteMatched(temp_data, duplicates.rows)
            /\ Goto(r, "Purged")
    /\ UNCHANGED <<store, duplicates, file, add_to_db, dataframe, total_rows,
                   data, report, result_csv, summary, store_at_start,
                   store_at_join, appended, reset_done>>

\* the rows of temp that come before the first one that violates NOT NULL
RECURSIVE RowsBeforeViolation(_)
RowsBeforeViolation(temp) ==
    IF temp = <<>> \/ InsertRaises(<<Head(temp)>>) THEN <<>>
    ELSE <<Head(temp)>> \o RowsBeforeViolation(Tail(temp))

\* the insert done row by row, each row committed on its own
InsertIntoMainDataTableRowByRow(r) ==
    /\ pc[r] = "Purged"
    /\ store' = store \o SelectColumns(RowsBeforeViolation(temp_data))
    /\ appended' = [appended EXCEPT ![r] = RowsBeforeViolation(temp_data)]
    /\ IF InsertRaises(temp_data)
       THEN Raise(r, "NotNullViolation")
       ELSE Goto(r, "Committed")
    /\ UNCHANGED <<temp_data, duplicates, file, add_to_db, dataframe,
                   total_rows, data, report, result_csv, summary,
                   store_at_start, store_at_join, reset_done>>

\* __insert_into_main_data_table, lines 364-366
InsertIntoMainDataTable(r) ==
    /\ pc[r] = "Purged"
    /\ IF InsertRaises(temp_data)
       THEN Raise(r, "NotNullViolation") /\ UNCHANGED <<store, appended>>
       ELSE /\ store' = store \o SelectColumns(temp_data)
            /\ appended' = [appended EXCEPT ![r] = temp_data]
            /\ Goto(r, "Committed")
    /\ UNCHANGED <<temp_data, duplicates, file, add_to_db, dataframe,
                   total_rows, data, report, result_csv, summary,
                   store_at_start, store_at_join, reset_done>>

\* COPY ... TO of one field: the NULL is written \N
CopyToField(v) == IF v = DbNull THEN NullMarker ELSE v

\* __save_clean_data, lines 377-380: copy_to of the whole of temp_data
SaveCleanData(r) ==
    /\ pc[r] = "Committed"
    /\ result_csv' =
          [result_csv EXCEPT ![r] =
              FileOf([i \in 1..Len(temp_data) |->
                  [c \in Range(get_columns) |-> CopyToField(temp_data[i].data[c])]])]
    /\ Goto(r, "Exported")
    /\ UNCHANGED <<dbVars, file, add_to_db, dataframe, total_rows, data,
                   report, summary, store_at_start, store_at_join, appended,
                   reset_done>>

\* __reset_temp_data_table, lines 368-370, reached at line 152
ResetTempDataTable(r) ==
    /\ \/ pc[r] = "Matched" /\ ~CommitPath(r)
       \/ pc[r] = "Exported"
    /\ temp_data' = <<>>
    /\ reset_done' = [reset_done EXCEPT ![r] = TRUE]
    /\ Goto(r, "Reset")
    /\ UNCHANGED <<store, duplicates, file, add_to_db, dataframe, total_rows,
                   data, report, result_csv, summary, store_at_start,
                   store_at_join, appended>>

\* __generate_report, lines 383-388: read duplicates, classify, write report.csv
FetchAndClassify(r) ==
    /\ pc[r] = "Reset"
    /\ IF ~duplicates.exists
       THEN Raise(r, "UndefinedTable") /\ UNCHANGED <<data, report>>
       ELSE /\ data' = [data EXCEPT ![r] = FetchedKeys(duplicates.rows)]
            /\ report' =
                  [report EXCEPT ![r] =
                      LET results == Classify(dataframe[r], FetchedKeys(duplicates.rows))
                      IN  FileOf([i \in 1..Len(dataframe[r]) |->
                              [row |-> dataframe[r][i], Result |-> results[i]]])]
            /\ Goto(r, "Reported")
    /\ UNCHANGED <<dbVars, file, add_to_db, dataframe, total_rows, result_csv,
                   summary, store_at_start, store_at_join, appended, reset_done>>

\* __generate_report, lines 389-397: drop table if exists duplicates, summary
DropDuplicatesTable(r) ==
    /\ pc[r] = "Reported"
    /\ duplicates' = NoTable
    /\ summary' =
          [summary EXCEPT ![r] =
              Summary(dataframe[r],
                      [i \in 1..Len(report[r].rows) |-> report[r].rows[i].Result],
                      total_rows[r])]
    /\ Goto(r, "Done")
    /\ UNCHANGED <<store, temp_data, file, add_to_db, dataframe, total_rows,
                   data, report, result_csv, store_at_start, store_at_join,
                   appended, reset_done>>

\* cursor.execute, copy_from, copy_to or open raises for a reason outside the
\* program (connection lost, disk full); the statement has no effect.  The
\* first of them, copy_from, comes after __check_required_columns.
DbError(r) ==
    /\ pc[r] \in {"Cleaned", "Staged", "Matched", "Purged", "Committed",
                  "Exported", "Reset", "Reported"}
    /\ pc[r] = "Cleaned" => ~MissingRequired(file[r].header)
    /\ Raise(r, "OperationalError")
    /\ UNCHANGED <<dbVars, file, add_to_db, dataframe, total_rows, data,
                   report, result_csv, summary, store_at_start, store_at_join,
                   appended, reset_done>>

Step(r) ==
    \/ Construct(r)
    \/ Stage(r)
    \/ JoinTables(r)
    \/ RemoveDuplicatesFromTempTable(r)
    \/ InsertIntoMainDataTable(r)
    \/ SaveCleanData(r)
    \/ ResetTempDataTable(r)
    \/ FetchAndClassify(r)
    \/ DropDuplicatesTable(r)
    \/ DbError(r)

\* the workers of the queue run their jobs independently of one another
Next == \E r \in Runs : Step(r)

Spec == Init /\ [][Next]_vars

Active(r) == pc[r] \notin {"Created", "Done", "Failed"}

\* one worker: a job starts when the one before it has ended
NextSeq == \E r \in Runs : (\A o \in Runs \ {r} : ~Active(o)) /\ Step(r)

SpecSeq == Init /\ [][NextSeq]_vars

(***************************************************************************)
(* The cleaning on its own: one job is given a file drawn from a larger    *)
(* set of raw values, is constructed and stages.                           *)
(***************************************************************************)
MaxCleanRows == 2

RawPhones ==
    {Phone1, PhoneShort, PhoneAlpha, <<>>,
     <<"8", "0", "0", "0", "0", "0", "0", "0", "0", "1">>,
     <<"7", "0", "0", "0", "0", "0", "0", "0", "0", "0", "1">>}

RawSuppliers == {Acme, <<"A", "-", "c">>, <<"-">>, <<" ">>, <<>>}

\* first names: the allow-listed Jo, two letters off the list, three letters,
\* a digit among the letters, none
RawNames ==
    {<<"J", "o">>, <<"A", "l">>, <<"A", "d", "a">>, <<"J", "0">>, <<>>}

\* every phone with a valid supplier, every supplier with a valid phone, a
\* row with neither, every first name with a valid phone and supplier
RawRows ==
    {SampleRow(p, <<"J", "o">>) : p \in RawPhones}
    \cup {[SampleRow(Phone1, <<"J", "o">>) EXCEPT !["Supplier"] = s] : s \in RawSuppliers}
    \cup {[SampleRow(PhoneShort, <<"J", "o">>) EXCEPT !["Supplier"] = <<"-">>]}
    \cup {SampleRow(Phone1, n) : n \in RawNames}

CleanHeaders == {FullHeader, {"Phone", "Supplier"}, {"Phone", "First Name"}}

\* raw values of the other columns that have rules
ColumnValues(l) ==
    CASE l = "Postcode" ->
            {<<"A", "1", " ", "2", " ", "c", "d", " ", "e">>,
             <<"A", "1", "-", "2", "c", "d">>,
             <<"A", "1", "2">>,
             <<"A", "1", "2", "c", "d", "e", "0", "0", "0">>}
      [] l = "BSC" ->
            {<<"A", "1">>, <<"1", "2", "3", "4", "5", "6", "7", "8", "9">>}
      [] l = "Title" -> {<<"J", "0", "e", ".">>, <<"0">>}
      [] l = "DOB" ->
            {<<"2", "0", "2", "0", "-", "0", "1", "-", "0", "2">>,
             <<"0", "1", "/", "0", "2", "/", "2", "0", "2", "0">>,
             <<"a">>, <<>>}
      [] l = "Email" -> {<<"a", "@", "c", ".", "d", "e">>, <<"a", "@", "c">>}
      [] l = "Last Name" -> {<<"A", "'", "l">>, <<"A", "1">>}
      [] l = "Address" -> {<<"1", " ", "A", "#", "e">>}

OtherLabels == {"Postcode", "BSC", "Title", "DOB", "Email", "Last Name", "Address"}

\* a row with a valid phone and supplier and the value v in the column l
ColumnRow(l, v) ==
    [k \in {"Phone", "Supplier", l} |->
        CASE k = "Phone" -> Phone1 [] k = "Supplier" -> Acme [] OTHER -> v]

\* the files of the three headers, up to MaxCleanRows rows each; the files
\* with one more column; the example of the specification
CleanFiles ==
    {[header |-> h, rows |-> [i \in 1..Len(rows) |-> Restrict(rows[i], h)]] :
        h \in CleanHeaders, rows \in SeqsUpTo(RawRows, MaxCleanRows)}
    \cup
    UNION {{[header |-> {"Phone", "Supplier", l}, rows |-> rows] :
                rows \in SeqsUpTo({ColumnRow(l, v) : v \in ColumnValues(l)},
                                  MaxCleanRows) \ {<<>>}} :
           l \in OtherLabels}
    \cup {[header |-> FullHeader, rows |-> ExampleRows]}

CleanJob == CHOOSE r \in Runs : TRUE

EmptyFile == [header |-> FullHeader, rows |-> <<>>]

InitClean ==
    InitWith({<<>>},
             {[r \in Runs |-> IF r = CleanJob THEN f ELSE EmptyFile] : f \in CleanFiles},
             [Runs -> BOOLEAN])

NextClean == Construct(CleanJob) \/ Stage(CleanJob)

SpecClean == InitClean /\ [][NextClean]_vars

(***************************************************************************)
(* Properties.                                                             *)
(***************************************************************************)
KeysOfTable(rows) == {rows[i][target_column] : i \in 1..Len(rows)}

\* the step of the run r that ends in one of the given places
StepInto(r, places) == pc'[r] # pc[r] /\ pc'[r] \in places

\* C1: in add_to_db mode no row that the insert of a run appends to the main
\* table has a phone that the main table held when the run started.
C1_NoStoredKeyReinserted ==
    \A r \in Runs : \A i \in 1..Len(appended[r]) :
        appended[r][i].data[target_column] \notin KeysOfTable(store_at_start[r])

\* C2: no step of a run in check-only mode changes the main table, and such a
\* run never deletes the matched rows, inserts or writes result.csv.
C2_CheckOnlyLeavesStore ==
    [][\A r \in Runs :
          (~add_to_db[r] /\ pc'[r] # pc[r]) =>
              /\ store' = store
              /\ pc'[r] \notin {"Purged", "Committed", "Exported"}
              /\ result_csv'[r] = NoFile]_vars

C2_Witness ==
    \E r \in Runs :
        /\ ~add_to_db[r]
        /\ pc[r] = "Done"
        /\ data[r] # {}
        /\ store # <<>>
        /\ store = store_at_start[r]

\* the statement of dedupe that raised, for a run that failed
FailedIn(r) ==
    IF pc[r] # "Failed" THEN None
    ELSE CASE failed_at[r] = "Created" -> "construct"
           [] failed_at[r] = "Cleaned" ->
                 IF error[r] = "MissingRequiredColumns" THEN "check" ELSE "stage"
           [] failed_at[r] = "Staged" -> "find_matches"
           [] failed_at[r] = "Matched" ->
                 IF add_to_db[r] THEN "purge_matched" ELSE "reset_staging"
           [] failed_at[r] = "Purged" -> "commit_new"
           [] failed_at[r] = "Committed" -> "export_committed"
           [] failed_at[r] = "Exported" -> "reset_staging"
           [] OTHER -> "report"

\* C3: a run in which stage, find_matches, purge_matched, commit_new or
\* export_committed failed has executed reset_staging when it has failed.
C3_ResetBeforeErrorPropagates ==
    \A r \in Runs :
        FailedIn(r) \in {"stage", "find_matches", "purge_matched", "commit_new",
                         "export_committed"}
            => reset_done[r]

\* C4: after every step of a run that has completed reset_staging (the
\* truncate itself, the report, the step into Done, a failure) temp_data
\* has no rows.
C4_ScratchEmptyAfterReset ==
    [][\A r \in Runs :
          (pc'[r] # pc[r] /\ reset_done'[r]) => temp_data' = <<>>]_vars

\* C5: the join, the delete, the insert, the export and the truncate of a run
\* meet in temp_data only rows that this run staged.
C5_ScratchNotShared ==
    [][\A r \in Runs :
          StepInto(r, {"Matched", "Purged", "Committed", "Exported", "Reset"}) =>
              \A i \in 1..Len(temp_data) : temp_data[i].by = r]_vars

KeysOfBatch(rows) == {Key(rows[i]) : i \in 1..Len(rows)}

Occurrences(rows, k) == Cardinality({i \in 1..Len(rows) : Key(rows[i]) = k})

ExpectedClass(rows, M, i) ==
    LET k == Key(rows[i])
        n == Occurrences(rows, k)
    IN  CASE n = 1 /\ k \notin M -> "Unique"
          [] n = 1 /\ k \in M -> "Duplicate"
          [] n > 1 /\ k \notin M -> "In-file"
          [] n > 1 /\ k \in M -> "In-file & DB"

\* C6: every record of the report has one of the four classifications, the
\* one that the number of occurrences of its key among the cleaned records
\* and the membership of its key in the Match-Key set determine.
C6_Classification ==
    \A r \in Runs :
        report[r].written =>
            /\ Len(report[r].rows) = Len(dataframe[r])
            /\ \A i \in 1..Len(dataframe[r]) :
                  /\ report[r].rows[i].Result \in Classes
                  /\ report[r].rows[i].Result = ExpectedClass(dataframe[r], data[r], i)

ResultsOf(r) == {report[r].rows[i].Result : i \in 1..Len(report[r].rows)}

C6_Witness ==
    /\ \E r \in Runs : {"In-file & DB", "Unique"} \subseteq ResultsOf(r)
    /\ \E r \in Runs : "Duplicate" \in ResultsOf(r)

\* C7: the keys that the classifier reads are the keys of the run's cleaned
\* batch that the main table held when the run's join ran.
C7_MatchKeysAreBatchInStore ==
    \A r \in Runs :
        pc[r] \in {"Reported", "Done"} =>
            data[r] = KeysOfBatch(dataframe[r]) \cap KeysOfTable(store_at_join[r])

\* C8: a run in add_to_db mode and a run in check-only mode that had the same
\* cleaned batch and found the same main table when they started read the
\* same Match-Key set and write the same classifications.
C8_SameMatchKeysInBothModes ==
    \A r1, r2 \in Runs :
        ( /\ pc[r1] \in {"Reported", "Done"} /\ pc[r2] \in {"Reported", "Done"}
          /\ add_to_db[r1] /\ ~add_to_db[r2]
          /\ dataframe[r1] = dataframe[r2]
          /\ store_at_start[r1] = store_at_start[r2] )
        => /\ data[r1] = data[r2]
           /\ report[r1] = report[r2]

C8_Witness ==
    \E r1, r2 \in Runs :
        /\ pc[r1] = "Done" /\ pc[r2] = "Done"
        /\ add_to_db[r1] /\ ~add_to_db[r2]
        /\ dataframe[r1] = dataframe[r2]
        /\ store_at_start[r1] = store_at_start[r2]
        /\ data[r1] # {}
        /\ \E i, j \in 1..Len(dataframe[r1]) :
              i # j /\ Key(dataframe[r1][i]) = Key(dataframe[r1][j])

CountIn(counts, cls) == IF cls \in DOMAIN counts THEN counts[cls] ELSE 0

\* C9: in the summary of a run that is Done the four counts add up to
\* total_classified, which is the number of cleaned records and of report
\* rows; the report has the cleaned records, one row each.
C9_Conservation ==
    \A r \in Runs :
        pc[r] = "Done" =>
            /\ CountIn(summary[r].indicator_counts, "Unique")
                 + CountIn(summary[r].indicator_counts, "Duplicate")
                 + CountIn(summary[r].indicator_counts, "In-file")
                 + CountIn(summary[r].indicator_counts, "In-file & DB")
               = summary[r].total_classified
            /\ DOMAIN summary[r].indicator_counts \subseteq Classes
            /\ summary[r].total_classified = Len(dataframe[r])
            /\ summary[r].total_classified = Len(report[r].rows)
            /\ \A i \in 1..Len(dataframe[r]) : report[r].rows[i].row = dataframe[r][i]

C9_Witness ==
    \E r \in Runs :
        /\ pc[r] = "Done"
        /\ add_to_db[r]
        /\ summary[r].total_classified >= 2
        /\ summary[r].total_input_rows > summary[r].total_classified
        /\ Len(appended[r]) < Len(dataframe[r])

\* what a column's rules declare of a value
SatisfiesRules(rules, v) ==
    /\ HasRule(rules, "exact_length") => Len(v) = rules["exact_length"]
    /\ HasRule(rules, "min_length") => Len(v) >= rules["min_length"]
    /\ HasRule(rules, "max_length") => Len(v) <= rules["max_length"]
    /\ HasRule(rules, "starts_with") => StartsWith(v, rules["starts_with"])
    /\ RuleSet(rules, "alphanumeric_only") => AllIn(v, WordChars)
    /\ RuleSet(rules, "remove_spaces") => " " \notin Range(v)
    /\ RuleSet(rules, "remove_zeros") => "0" \notin Range(v)
    /\ RuleSet(rules, "remove_special_chars") => AllIn(v, WordChars \cup SpaceChars)
    /\ HasRule(rules, "allowed_special_chars") =>
           AllIn(v, WordChars \cup rules["allowed_special_chars"])
    /\ RuleSet(rules, "valid_email") => MatchesEmail(v)

\* the run's batch has passed __check_required_columns
PassedColumnCheck(r) ==
    \/ pc[r] \in {"Staged", "Matched", "Purged", "Committed", "Exported",
                  "Reset", "Reported", "Done"}
    \/ pc[r] = "Failed" /\ failed_at[r] \notin {"Created", "Cleaned"}

HasCleaned(r) ==
    /\ pc[r] # "Created"
    /\ error[r] \notin {"ErrorCreatingJobDir", "ErrorReadingDataFile"}

\* C11: cleaning the batch that a completed cleaning produced completes and
\* gives that batch again, no row removed and no value changed.
C11_CleanIsIdempotent ==
    \A r \in Runs :
        (HasCleaned(r) /\ error[r] # "ZeroDivisionError") =>
            /\ ~ThresholdRaises(file[r].header, Len(dataframe[r]))
            /\ CleanData(file[r].header, dataframe[r]) = dataframe[r]

\* the rows a copy_to of the given staged rows writes
ExportOf(staged) ==
    [i \in 1..Len(staged) |->
        [c \in Range(get_columns) |-> CopyToField(staged[i].data[c])]]

\* C12: the result.csv of a run holds exactly the rows that the run's insert
\* added to the main table, and a check-only run writes no result.csv.
C12_ExportIsCommitted ==
    \A r \in Runs :
        /\ result_csv[r].written =>
               add_to_db[r] /\ result_csv[r].rows = ExportOf(appended[r])
        /\ ~add_to_db[r] => ~result_csv[r].written

EarlyErrors == {"ErrorCreatingJobDir", "ErrorReadingDataFile", "MissingRequiredColumns"}

\* C13: the step of a run that raises ErrorCreatingJobDir, ErrorReadingDataFile
\* or MissingRequiredColumns leaves the three tables as they were, the run has
\* staged no row and written no report; the first two are raised by the
\* constructor before the batch is cleaned, the third by the column check; and
\* a run whose file lacks a required label leaves the column check only by
\* raising MissingRequiredColumns.
C13_EarlyErrorsChangeNothing ==
    [][\A r \in Runs :
          /\ (pc[r] # "Failed" /\ pc'[r] = "Failed" /\ error'[r] \in EarlyErrors) =>
                /\ store' = store /\ temp_data' = temp_data /\ duplicates' = duplicates
                /\ \A i \in 1..Len(temp_data') : temp_data'[i].by # r
                /\ ~report'[r].written /\ ~result_csv'[r].written
                /\ ~summary'[r].returned
                /\ IF error'[r] = "MissingRequiredColumns"
                   THEN pc[r] = "Cleaned"
                   ELSE pc[r] = "Created" /\ dataframe'[r] = <<>> /\ total_rows'[r] = 0
          /\ ( /\ pc[r] = "Cleaned" /\ pc'[r] # pc[r]
               /\ ~(Range(required_labels) \subseteq file[r].header) ) =>
                error'[r] = "MissingRequiredColumns"]_vars

C13_Witness ==
    \E r1, r2 \in Runs :
        /\ error[r1] = "MissingRequiredColumns" /\ total_rows[r1] = 1
        /\ error[r2] \in {"ErrorCreatingJobDir", "ErrorReadingDataFile"}
        /\ Len(file[r2].rows) >= 1
        /\ store # <<>>

\* C14: the cleaning of a file that was read never raises: the constructor
\* fails only with ErrorCreatingJobDir or ErrorReadingDataFile, whatever the
\* rows of the file are, a file of no rows included.
C14_CleanNeverRaises ==
    \A r \in Runs :
        (pc[r] = "Failed" /\ failed_at[r] = "Created") =>
            error[r] \in {"ErrorCreatingJobDir", "ErrorReadingDataFile"}

\* every required column of the file has a value after its rules
KeptByRequired(header, row) ==
    \A l \in Range(required_labels) \cap header :
        \E c \in Range(required_columns) :
            /\ LabelOf(c) = l
            /\ ApplyRules(column_specs[c].cleaning_rules, row[l]) # <<>>

\* C15: the cleaned batch has the rows of the file whose required columns all
\* have a value after their rules, and no others; a value of an optional
\* column that its rules empty stays in its row, empty.
C15_RemovedIffRequiredEmpty ==
    \A r \in Runs :
        HasCleaned(r) =>
            LET header == file[r].header
                kept == SelectSeq(ReadDataFile(file[r]),
                                  LAMBDA row : KeptByRequired(header, row))
            IN  /\ Len(dataframe[r]) = Len(kept)
                /\ \A i \in 1..Len(kept) : dataframe[r][i] = CleanRow(header, kept[i])

C15_Witness ==
    \E r \in Runs :
        /\ pc[r] = "Cleaned"
        /\ file[r].header = FullHeader
        /\ Len(file[r].rows) = 2 /\ Len(dataframe[r]) = 1
        /\ file[r].rows[1]["First Name"] = <<"J", "0">>
        /\ dataframe[r][1]["First Name"] = <<>>
        /\ dataframe[r][1]["Phone"] = Phone1

\* C16: the cleaned batch is the concatenation, in the order of the file, of
\* what the cleaning makes of each row taken alone.
C16_CleanIsRowWise ==
    \A r \in Runs :
        HasCleaned(r) =>
            LET rows == ReadDataFile(file[r])
            IN  dataframe[r] =
                    Flatten([i \in 1..Len(rows) |-> CleanData(file[r].header, <<rows[i]>>)])

C16_Witness ==
    \E r \in Runs :
        /\ pc[r] = "Cleaned"
        /\ Len(file[r].rows) = 2 /\ Len(dataframe[r]) = 2
        /\ dataframe[r][1] = dataframe[r][2]
        /\ file[r].rows[1] # file[r].rows[2]

\* the rules of a column cut down to the one rule name
OneRule(rules, name) == [n \in {name} |-> rules[n]]

RECURSIVE ApplyInOrder(_, _, _)
\* the rules of a column applied one after the other in the given order
ApplyInOrder(rules, order, v) ==
    IF order = <<>> THEN v
    ELSE ApplyInOrder(rules, Tail(order),
                      IF Head(order) \in DOMAIN rules
                      THEN ApplyRules(OneRule(rules, Head(order)), v)
                      ELSE v)

\* the rows of the file that the cleaning keeps, as the file has them
KeptRows(r) ==
    SelectSeq(ReadDataFile(file[r]), LAMBDA row : KeptByRequired(file[r].header, row))

\* C17 as claimed: every value of the cleaned batch is the composition of the
\* rules of its column in the order in which the schema declares them.
C17_RulesInDeclaredOrder ==
    \A r \in Runs :
        HasCleaned(r) =>
            \A i \in 1..Len(dataframe[r]) : \A c \in ColumnsIn(file[r].header) :
                dataframe[r][i][LabelOf(c)] =
                    ApplyInOrder(column_specs[c].cleaning_rules, declared_rules[c],
                                 KeptRows(r)[i][LabelOf(c)])

\* C17 as amended: every value of the cleaned batch is the composition of the
\* rules of its column in the one order of the rule kinds that the cleaning
\* has (RuleOrder), whatever the order in which the schema lists them.
C17_RulesInFixedOrder ==
    \A r \in Runs :
        HasCleaned(r) =>
            \A i \in 1..Len(dataframe[r]) : \A c \in ColumnsIn(file[r].header) :
                dataframe[r][i][LabelOf(c)] =
                    ApplyInOrder(column_specs[c].cleaning_rules, RuleOrder,
                                 KeptRows(r)[i][LabelOf(c)])

C17_Witness ==
    \E r \in Runs :
        /\ pc[r] = "Cleaned"
        /\ "Postcode" \in file[r].header
        /\ \E i \in 1..Len(dataframe[r]) :
              /\ Len(KeptRows(r)[i]["Postcode"]) > 8
              /\ dataframe[r][i]["Postcode"] = <<"A", "1", "2", "c", "d", "e">>

\* the first-name test as the claim has it
NameIsValidAsClaimed(v) ==
    /\ Len(v) >= 1
    /\ AllIn(v, Letters \cup {" ", "-"})
    /\ (Len(v) >= 3 \/ v \in ShortNameAllowList)

\* C18: a first name is kept unchanged if it has only letters, spaces and
\* hyphens and is at least 3 characters long or on the allow-list, and is
\* emptied otherwise.
C18_FirstNameValidator ==
    \A r \in Runs :
        (HasCleaned(r) /\ "First Name" \in file[r].header) =>
            \A i \in 1..Len(dataframe[r]) :
                dataframe[r][i]["First Name"] =
                    IF NameIsValidAsClaimed(KeptRows(r)[i]["First Name"])
                    THEN KeptRows(r)[i]["First Name"]
                    ELSE <<>>

\* the four rules on lengths and the prefix, as a test of a value
LengthAndPrefixOk(rules, w) ==
    /\ HasRule(rules, "exact_length") => Len(w) = rules["exact_length"]
    /\ HasRule(rules, "min_length") => Len(w) >= rules["min_length"]
    /\ HasRule(rules, "max_length") => Len(w) <= rules["max_length"]
    /\ HasRule(rules, "starts_with") =>
          /\ Len(w) >= Len(rules["starts_with"])
          /\ \A k \in 1..Len(rules["starts_with"]) : w[k] = rules["starts_with"][k]

\* the columns that have one of the four rules
LengthColumns ==
    {c \in Range(ColumnOrder) :
        DOMAIN column_specs[c].cleaning_rules
            \cap {"exact_length", "min_length", "max_length", "starts_with"} # {}}

\* the value the four rules meet: these columns have no other rules than the
\* two that strip spaces and the characters that are no word characters
BeforeLengthRules(c, raw) ==
    IF RuleSet(column_specs[c].cleaning_rules, "alphanumeric_only")
    THEN Filter(raw, WordChars) ELSE raw

\* C19: in a column with exact_length, min_length, max_length or starts_with
\* a value that satisfies them all is unchanged and another becomes empty; a
\* row (with a supplier) is kept if and only if its Phone has exactly 10
\* characters and starts with 7.
C19_LengthAndPrefixRules ==
    \A r \in Runs :
        HasCleaned(r) =>
            LET header == file[r].header
                kept == SelectSeq(ReadDataFile(file[r]),
                           LAMBDA row :
                              /\ Len(row["Phone"]) = 10 /\ row["Phone"][1] = "7"
                              /\ "Supplier" \in header =>
                                    Filter(row["Supplier"], WordChars) # <<>>)
            IN  /\ Len(dataframe[r]) = Len(kept)
                /\ \A i \in 1..Len(kept) :
                      \A c \in LengthColumns \cap ColumnsIn(header) :
                          LET w == BeforeLengthRules(c, kept[i][LabelOf(c)])
                          IN  dataframe[r][i][LabelOf(c)] =
                                 IF LengthAndPrefixOk(column_specs[c].cleaning_rules, w)
                                 THEN w ELSE <<>>

C19_Witness ==
    \E r \in Runs :
        /\ pc[r] = "Cleaned"
        /\ file[r].rows = ExampleRows
        /\ Len(dataframe[r]) = 3
        /\ [i \in 1..3 |-> dataframe[r][i]["Phone"]] = <<Phone1, Phone1, Phone3>>

\* the rows of the batch whose key no earlier row has
FirstOccurrences(rows) ==
    SelectSeq([i \in 1..Len(rows) |-> i],
              LAMBDA i : ~\E j \in 1..(i - 1) : Key(rows[j]) = Key(rows[i]))

\* C20: the rows a run stages are, in add_to_db mode, one row for each key of
\* the cleaned batch, made of the first record with that key, with every
\* required and optional column, a column the file lacks being empty; in
\* check-only mode one row for each cleaned record, with the key and nothing
\* in the other columns.
C20_StagedCandidates ==
    \A r \in Runs :
        pc[r] = "Staged" =>
            LET rows == dataframe[r]
                first == FirstOccurrences(rows)
            IN  IF add_to_db[r]
                THEN /\ Len(temp_data) = Len(first)
                     /\ \A k \in 1..Len(first) :
                           /\ temp_data[k].by = r
                           /\ DOMAIN temp_data[k].data = Range(get_columns)
                           /\ \A c \in Range(get_columns) :
                                 temp_data[k].data[c] =
                                    IF LabelOf(c) \notin file[r].header THEN <<>>
                                    ELSE IF rows[first[k]][LabelOf(c)] = NullMarker
                                         THEN DbNull
                                         ELSE rows[first[k]][LabelOf(c)]
                ELSE /\ Len(temp_data) = Len(rows)
                     /\ \A i \in 1..Len(rows) :
                           /\ temp_data[i].by = r
                           /\ temp_data[i].data[target_column] = Key(rows[i])
                           /\ \A c \in Range(get_columns) \ {target_column} :
                                 temp_data[i].data[c] = DbNull

C20_Witness ==
    \E r \in Runs :
        /\ pc[r] = "Staged" /\ add_to_db[r]
        /\ Len(dataframe[r]) = 2 /\ Len(temp_data) = 1
        /\ dataframe[r][2]["Supplier"] = Acme
        /\ temp_data[1].data["supplier_name"] = <<"A", "c">>
        /\ temp_data[1].data["first_name"] = <<"J", "o">>
        /\ temp_data[1].data["dob"] = <<>>

\* the steps of dedupe in the order of lines 137-154, as pairs of places
StepsOf(commit) ==
    {<<"Created", "Cleaned">>, <<"Cleaned", "Staged">>, <<"Staged", "Matched">>,
     <<"Reset", "Reported">>, <<"Reported", "Done">>}
    \cup (IF commit
          THEN {<<"Matched", "Purged">>, <<"Purged", "Committed">>,
                <<"Committed", "Exported">>, <<"Exported", "Reset">>}
          ELSE {<<"Matched", "Reset">>})

\* C21: a run moves only along Created, Cleaned, Staged, Matched, (Purged,
\* Committed, Exported in add_to_db mode only), Reset, Reported, Done, or
\* fails; a run that is Done or Failed moves no more; the keys of duplicates
\* are read after the truncate and the table is dropped after they were read.
C21_StepOrder ==
    [][\A r \in Runs :
          pc'[r] # pc[r] =>
              /\ pc[r] \notin {"Done", "Failed"}
              /\ pc'[r] = "Failed" \/ <<pc[r], pc'[r]>> \in StepsOf(add_to_db[r])
              /\ pc'[r] = "Reported" => reset_done[r]
              /\ pc'[r] = "Done" => report[r].written /\ ~duplicates'.exists]_vars

C21_Witness ==
    \E r1, r2 \in Runs :
        /\ pc[r1] = "Done" /\ add_to_db[r1] /\ appended[r1] # <<>>
        /\ result_csv[r1].written
        /\ pc[r2] = "Done" /\ ~add_to_db[r2] /\ Len(dataframe[r2]) >= 1

\* C22: when no run is under way the table duplicates does not exist, and no
\* join fails because it exists.
C22_MatchSetEndsWithRun ==
    /\ (\A r \in Runs : ~Active(r)) => ~duplicates.exists
    /\ \A r \in Runs : error[r] # "DuplicateTable"

\* C23: the labels that the message of MissingRequiredColumns names are the
\* required labels that the header of the file lacks.
C23_MessageNamesMissingLabels ==
    \A r \in Runs :
        error[r] = "MissingRequiredColumns" =>
            Range(error_labels[r]) = Range(required_labels) \ file[r].header

\* the keys of the records that have the given classification
KeysOfClass(rows, results, cls) ==
    {Key(rows[i]) : i \in {j \in 1..Len(rows) : results[j] = cls}}

ResultColumn(r) == [i \in 1..Len(report[r].rows) |-> report[r].rows[i].Result]

\* C24: each of the two extra counts of the summary is the number of records
\* of its class less the number of their keys, and total_classified less the
\* two counts is the number of keys of the cleaned batch.
C24_ExtraCounts ==
    \A r \in Runs :
        pc[r] = "Done" =>
            LET rows == dataframe[r]
                res == ResultColumn(r)
                s == summary[r]
            IN  /\ s.unique_infile_count =
                      CountOf(res, "In-file")
                        - Cardinality(KeysOfClass(rows, res, "In-file"))
                /\ s.unique_infile_db_count =
                      CountOf(res, "In-file & DB")
                        - Cardinality(KeysOfClass(rows, res, "In-file & DB"))
                /\ s.total_classified - s.unique_infile_count - s.unique_infile_db_count
                      = Cardinality(KeysOfBatch(rows))

C24_Witness ==
    \E r \in Runs :
        /\ pc[r] = "Done"
        /\ summary[r].total_classified = 3
        /\ summary[r].unique_infile_db_count = 1
        /\ CountIn(summary[r].indicator_counts, "Unique") = 1

\* C25: total_input_rows is the number of rows read from the file, is at
\* least total_classified, and exceeds it by the number of rows that a
\* required column removed.
C25_TotalInputRows ==
    \A r \in Runs :
        pc[r] = "Done" =>
            LET rows == ReadDataFile(file[r])
                s == summary[r]
            IN  /\ s.total_input_rows = Len(rows)
                /\ s.total_input_rows >= s.total_classified
                /\ s.total_input_rows - s.total_classified =
                      Cardinality({i \in 1..Len(rows) :
                                      ~KeptByRequired(file[r].header, rows[i])})

C25_Witness ==
    \E r \in Runs :
        /\ pc[r] = "Done"
        /\ ~add_to_db[r]
        /\ summary[r].total_input_rows = 4
        /\ summary[r].total_classified = 3

NoRepeatedKey(rows) ==
    \A i, j \in 1..Len(rows) :
        rows[i][target_column] = rows[j][target_column] => i = j

\* C26: the main table, which starts with no phone in two rows, never holds
\* two rows with the same phone, whatever the runs do and wherever they fail.
C26_StoreKeysStayDistinct == NoRepeatedKey(store)

\* C27: every row that the insert of a run appended to the main table was
\* written to temp_data by the copy_from of that run.
C27_AppendedRowsAreOwn ==
    \A r \in Runs : \A i \in 1..Len(appended[r]) : appended[r][i].by = r

\* C28: with one run at a time, the phones that a Done run in add_to_db mode
\* appended are the phones of its records classified Unique or In-file, one
\* row each, which makes count(Unique) + count(In-file) less the In-file
\* extra count rows.
C28_AppendedAreUniqueAndInFile ==
    \A r \in Runs :
        (pc[r] = "Done" /\ add_to_db[r]) =>
            LET rows == dataframe[r]
                res == ResultColumn(r)
                new == SelectColumns(appended[r])
            IN  /\ KeysOfTable(new) =
                      KeysOfClass(rows, res, "Unique")
                        \cup KeysOfClass(rows, res, "In-file")
                /\ NoRepeatedKey(new)
                /\ Len(new) = CountOf(res, "Unique") + CountOf(res, "In-file")
                                - summary[r].unique_infile_count

\* C29 as stated: a run in add_to_db mode that has failed has left none of
\* its rows in the main table.
C29_AllOrNothing ==
    \A r \in Runs : (pc[r] = "Failed" /\ add_to_db[r]) => appended[r] = <<>>

IsPrefix(s, t) == Len(s) <= Len(t) /\ \A i \in 1..Len(s) : s[i] = t[i]

\* C29, amended: only the insert of a run adds rows to the main table and no
\* step removes any; the step in which a run fails leaves the main table as
\* it is, so a run that failed before its insert completed has appended no
\* row, and a run that failed after it has its appended rows in the table.
C29_CommittedRowsArePermanent ==
    [][\A r \in Runs :
          /\ IsPrefix(store, store')
          /\ (pc'[r] # pc[r] /\ store' # store) => pc'[r] = "Committed"
          /\ StepInto(r, {"Failed"}) =>
                /\ store' = store
                /\ appended'[r] = appended[r]
                /\ failed_at'[r] \in {"Created", "Cleaned", "Staged", "Matched",
                                      "Purged"} => appended'[r] = <<>>
                /\ \A i \in 1..Len(appended'[r]) :
                      \E k \in 1..Len(store') : store'[k] = appended'[r][i].data]_vars

C29_Witness ==
    \E r \in Runs :
        /\ pc[r] = "Failed" /\ add_to_db[r]
        /\ failed_at[r] \in {"Committed", "Exported"}
        /\ appended[r] # <<>>
        /\ Len(store) = Len(store_at_start[r]) + Len(appended[r])

\* C30: when a run in add_to_db mode is Done, the main table holds every
\* phone of its cleaned batch.
C30_DoneRunCommittedItsKeys ==
    \A r \in Runs :
        (pc[r] = "Done" /\ add_to_db[r]) =>
            KeysOfBatch(dataframe[r]) \subseteq KeysOfTable(store)

====
